---- MODULE Spec2Model ----
(***************************************************************************)
(* Trade ingestion layer of the crypto price predictor: the Kraken         *)
(* WebSocket connector (kraken_websocket_api.py), the Kraken REST fetcher  *)
(* (kraken_rest_api.py) and the coordinator of the trades service          *)
(* (main.py).                                                              *)
(*                                                                         *)
(* Time is kept as ages: heartbeat_age is time.time() - _last_heartbeat    *)
(* and trade_silence is time.time() - last_successful_trade, in whole      *)
(* seconds.  Assigning time.time() to the stored instant sets the age to   *)
(* 0, and a sleep or a blocking receive of d seconds adds d to every age.  *)
(* The code only compares an age with a threshold, so an age is kept up    *)
(* to threshold + 1 and no further.                                        *)
(*                                                                         *)
(* The deduplication service (deduplication/main.py) is modelled beside    *)
(* it: the cache of keys per topic with its lock, the consumer threads     *)
(* calling is_duplicate and the cleanup worker thread.  The entry of a     *)
(* key is kept as the age of its timestamp, up to cache_ttl_seconds + 1.   *)
(***************************************************************************)
EXTENDS Integers, Sequences, FiniteSets, TLC

VARIABLES
    pc,                       \* position of the main thread
    api,                      \* the KrakenWebSocketAPI object's fields
    health_status,            \* main.py global health_status
    consecutive_errors,       \* process_websocket_data local
    error_backoff_delay,      \* process_websocket_data local
    trade_silence,            \* age of process_websocket_data's last_successful_trade
    connection_health_checks, \* process_websocket_data local
    events,                   \* list returned by the last get_trades(), not yet published
    net_up,                   \* environment: the exchange can still be reached
    next_trade,               \* environment: identity of the next live trade
    up_calls,                 \* environment: get_trades() calls made while the exchange was reachable
    yielded,                  \* history: trades yielded to the coordinator
    handed,                   \* history: trades passed to publish_trade
    publish_failed,           \* history: some publish_trade call has raised
    last_call,                \* history: what the last get_trades() call did
    delays,                   \* history: reconnect delays slept since the last successful connect
    exit_code,                \* <<status>> once the process has exited, <<>> while it runs
    product_idx,              \* get_trades_streaming: index of product_id in product_ids
    request_count,            \* get_trades_streaming local
    consecutive_empty_pages,  \* get_trades_streaming local
    current_since,            \* get_trades_streaming local
    page,                     \* get_trades_streaming: latest_trade_time, batch_trades
    callback_queue,           \* publish_batch_to_kafka: trades of the batch not yet published
    all_trades,               \* get_trades_streaming local, the list it returns
    batch_fetch,              \* KrakenRESTAPI.get_trades() run on the same page responses
    parsed_trade,             \* a raw trade time in microseconds and the timestamp_ms made of it
    service,                  \* DeduplicationService: _running, _health_status, position of run()
    cache,                    \* DeduplicationCache._cache: topic -> key -> age of the timestamp
    lock,                     \* DeduplicationCache._lock: "free" or the thread that holds it
    worker_pc,                \* position of the cleanup_worker thread
    consumers,                \* the process_topic threads: what each is doing
    returns                   \* history: is_duplicate results per topic and key since the key was last removed

vars == <<pc, api, health_status, consecutive_errors, error_backoff_delay,
          trade_silence, connection_health_checks, events, net_up,
          next_trade, up_calls, yielded, handed, publish_failed, last_call, delays,
          exit_code, product_idx, request_count, consecutive_empty_pages,
          current_since, page, callback_queue, all_trades, batch_fetch,
          parsed_trade, service, cache, lock, worker_pc, consumers, returns>>

-----------------------------------------------------------------------------
(* Bounds of the model *)

MaxTrades == 2
MaxBatch == 2
MaxUpCalls == 2
NumProducts == 1
MaxPageLen == 2
MaxMicros == 1200
NumKeys == 1
MaxCalls == 3

(* Program constants *)

RECONNECT_DELAY == 5
MAX_RECONNECT_ATTEMPTS == 10
HEARTBEAT_TIMEOUT == 30
RECV_TIMEOUT == 10
MAX_RECONNECT_SLEEP == 60
max_consecutive_errors == 5
max_error_delay == 60
max_silence_duration == 300
max_health_checks_without_data == 10
FATAL_SLEEP == 10
MAX_EMPTY_PAGES == 3
RATE_LIMIT_EVERY == 10
cache_ttl_seconds == 3600
cache_cleanup_interval == 300

Min(a, b) == IF a <= b THEN a ELSE b

\* time.time() - self._last_heartbeat after d more seconds
HeartbeatAfter(age, d) == Min(age + d, HEARTBEAT_TIMEOUT + 1)

\* time.time() - last_successful_trade after d more seconds
SilenceAfter(age, d) == Min(age + d, max_silence_duration + 1)

-----------------------------------------------------------------------------
(* KrakenWebSocketAPI *)

ConnectOutcomes == {"ok", "create_fail", "subscribe_fail"}
RecvOutcomes == {"heartbeat", "bad_json", "no_data", "bad_fields", "batch",
                 "closed", "timeout", "error"}
RecvElapsed == {0, RECV_TIMEOUT}

\* what the exchange can answer while it is reachable or not
ConnectPossible(up) == IF up THEN ConnectOutcomes ELSE {"create_fail"}
RecvPossible(up) == IF up THEN RecvOutcomes ELSE {"closed", "timeout", "error"}

NewApi == [ws_client |-> FALSE, connected |-> FALSE,
           heartbeat_age |-> 0, reconnect_attempts |-> 0]

CleanupConnection(a) ==
    IF a.ws_client
    THEN [a EXCEPT !.ws_client = FALSE, !.connected = FALSE]
    ELSE a

\* _connect: the new state; the call returns TRUE exactly when o = "ok"
Connect(a, o) ==
    LET c == CleanupConnection(a) IN
    CASE o = "ok" ->
            [c EXCEPT !.ws_client = TRUE, !.connected = TRUE,
                      !.heartbeat_age = 0, !.reconnect_attempts = 0]
      [] o = "create_fail" -> [c EXCEPT !.connected = FALSE]
      [] o = "subscribe_fail" -> [c EXCEPT !.ws_client = TRUE, !.connected = FALSE]

\* mutant: the delay is not capped
ReconnectDelay_Uncapped(attempts) == RECONNECT_DELAY * (2 ^ (attempts - 1))

ReconnectDelay(attempts) ==
    Min(RECONNECT_DELAY * (2 ^ (attempts - 1)), MAX_RECONNECT_SLEEP)

\* _reconnect: [api: the fields at return, ok: the value returned,
\*              connects: calls of _connect made, delay: seconds slept]
Reconnect(a, o) ==
    IF a.reconnect_attempts >= MAX_RECONNECT_ATTEMPTS
    THEN [api |-> a, ok |-> FALSE, connects |-> 0, delay |-> 0]
    ELSE LET n == a.reconnect_attempts + 1
             delay == ReconnectDelay(n)
             b == [a EXCEPT !.reconnect_attempts = n,
                            !.heartbeat_age = HeartbeatAfter(@, delay)]
         IN [api |-> Connect(b, o), ok |-> (o = "ok"),
             connects |-> 1, delay |-> delay]

\* mutant: a heartbeat exactly HEARTBEAT_TIMEOUT old already counts as stale
IsConnectionHealthy_OffByOne(a) ==
    a.connected /\ a.ws_client /\ a.heartbeat_age < HEARTBEAT_TIMEOUT

IsConnectionHealthy(a) ==
    IF ~a.connected \/ ~a.ws_client THEN FALSE
    ELSE IF a.heartbeat_age > HEARTBEAT_TIMEOUT THEN FALSE
    ELSE TRUE

NoReconnect(a) == [api |-> a, ok |-> TRUE, connects |-> 0, delay |-> 0]

\* get_trades, `if "heartbeat" in data`: the record of the call
RecvHeartbeat(call) == [call EXCEPT !.api.heartbeat_age = 0]

\* get_trades, json.JSONDecodeError and KeyError on "data": logged, return []
RecvUndecodable(call) == call

\* mutant: a trade batch counts as a sign of life like a heartbeat
RecvBatch_Refreshes(call, n) == [call EXCEPT !.count = n, !.api.heartbeat_age = 0]

\* get_trades, a well-formed message: its n trades are returned
RecvBatch(call, n) == [call EXCEPT !.count = n]

\* mutant: a receive timeout is treated as a lost connection
RecvTimeout_Disconnects(call) == [call EXCEPT !.api.connected = FALSE]

\* get_trades, except WebSocketTimeoutException: return []
RecvTimeout(call) == call

\* mutant: a failed reconnect is swallowed and [] returned
RecvFailed_Swallows(call, c2) ==
    LET rc == Reconnect([call.api EXCEPT !.connected = FALSE], c2) IN
    [call EXCEPT !.api = rc.api, !.raised = FALSE, !.second = rc]

\* get_trades, except WebSocketConnectionClosedException and except Exception:
\* mark disconnected, reconnect at once, return [] or raise
RecvFailed(call, c2) ==
    LET rc == Reconnect([call.api EXCEPT !.connected = FALSE], c2) IN
    [call EXCEPT !.api = rc.api, !.raised = ~rc.ok, !.second = rc]

\* mutant: the health check before the receive is missing
BeforeReceive_Unchecked(a, c1) == NoReconnect(a)

\* get_trades, `if not self._is_connection_healthy()`: the _reconnect made
\* before the receive, if any
BeforeReceive(a, c1) ==
    IF IsConnectionHealthy(a) THEN NoReconnect(a) ELSE Reconnect(a, c1)

\* get_trades: c1 is the outcome of the connect made when unhealthy, r the
\* outcome of recv() after e seconds, n the size of a trade batch, c2 the
\* outcome of the connect made by an except branch.
\* [api: the fields at return, raised, count: trades returned, recv, elapsed,
\*  mid: the fields when the receive began, first: the _reconnect made before
\*  the receive, second: the _reconnect made after it]
GetTradesCall(a, c1, r, e, n, c2) ==
    LET pre == BeforeReceive(a, c1) IN
    IF ~pre.ok
    THEN [api |-> pre.api, raised |-> FALSE, count |-> 0,
          recv |-> "none", elapsed |-> 0, mid |-> pre.api,
          first |-> pre, second |-> NoReconnect(pre.api)]
    ELSE
      LET b == [pre.api EXCEPT !.heartbeat_age = HeartbeatAfter(@, e)]
          call == [api |-> b, raised |-> FALSE, count |-> 0,
                   recv |-> r, elapsed |-> e, mid |-> pre.api,
                   first |-> pre, second |-> NoReconnect(b)]
      IN
      CASE r = "heartbeat" -> RecvHeartbeat(call)
        [] r = "bad_json" -> RecvUndecodable(call)
        [] r = "no_data" -> RecvUndecodable(call)
        [] r = "batch" -> RecvBatch(call, n)
        [] r = "timeout" -> RecvTimeout(call)
        [] r = "closed" -> RecvFailed(call, c2)
        [] r = "bad_fields" -> RecvFailed(call, c2)
        [] r = "error" -> RecvFailed(call, c2)

\* the delays slept since the last successful connect, after the _reconnect rc
DelaysAfter(d, rc) ==
    IF rc.connects = 0 THEN d
    ELSE IF rc.ok THEN <<>>
    ELSE Append(d, rc.delay)

\* the inputs of one get_trades() call on the fields a: what the exchange
\* answers to each connect and to the receive that the call can make
\* (c1, n and c2 are fixed when the call can not use them)
CallInputs(a, up) ==
    UNION { { [c1 |-> c1, r |-> r, e |-> e, n |-> n, c2 |-> c2] :
                c1 \in (IF IsConnectionHealthy(a) THEN {"ok"} ELSE ConnectPossible(up)),
                e \in (IF r = "timeout" THEN {RECV_TIMEOUT} ELSE RecvElapsed),
                n \in (IF r = "batch" THEN 1..MaxBatch ELSE {0}),
                c2 \in (IF r \in {"closed", "bad_fields", "error"}
                        THEN ConnectPossible(up) ELSE {"ok"}) } :
            r \in RecvPossible(up) }

coordVars == <<consecutive_errors, error_backoff_delay, trade_silence,
               connection_health_checks>>
envVars == <<net_up, next_trade, up_calls>>
tradeVars == <<yielded, handed, publish_failed>>
callVars == <<last_call, delays>>
fetchVars == <<product_idx, request_count, consecutive_empty_pages, current_since,
               page, callback_queue, all_trades, batch_fetch>>
dedupVars == <<service, cache, lock, worker_pc, consumers, returns>>

-----------------------------------------------------------------------------
(* KrakenRESTAPI *)

\* trade times are whole numbers, in the three ranges that the comparisons of
\* get_trades_streaming tell apart: before EarliestTimestamp (earliest_timestamp,
\* the start of the lookback window), from it up to LiveEdge (now_timestamp - 60),
\* and from LiveEdge on
EarliestTimestamp == 2
LiveEdge == 3
TradeTimes == (EarliestTimestamp - 1)..LiveEdge

\* cursors: NoCursor is a response without "last", InitialSince is
\* _convert_to_nanoseconds(earliest_timestamp), "later" is any other cursor
NoCursor == "none"
InitialSince == "earliest"
Cursors == {NoCursor, InitialSince, "later"}

\* raw entries [price, volume, time, ...]: "ok" parses, "bad_time" has a time
\* that float() rejects, "bad_price" has a price that float() rejects
RawEntries ==
    [kind : {"ok"}, time : TradeTimes]
    \cup {[kind |-> "bad_time", time |-> 0]}
    \cup {[kind |-> "bad_price", time |-> EarliestTimestamp]}

\* what _fetch_trades_page can return as trades_data; a failed request
\* returns the empty list
PageBodies == UNION { [1..n -> RawEntries] : n \in 0..MaxPageLen }

\* `int(trade_time * 1000)`, of a trade time of trade_time_us microseconds:
\* the product is trade_time_us / 1000 and int() drops its fraction
TimestampMs(trade_time_us) == trade_time_us \div 1000

\* `int(datetime.fromisoformat(trade["timestamp"]).timestamp() * 1000)`, of a
\* timestamp of trade_time_us microseconds
WebsocketTimestampMs(trade_time_us) == trade_time_us \div 1000

NotParsed == [source |-> "none", trade_time_us |-> 0, timestamp_ms |-> 0]

\* _transform_trade: <<the Trade>>, or <<>> for None; entry.time is in seconds
TransformTrade(entry, product_id, request, i) ==
    IF entry.kind = "ok"
    THEN << [product_id |-> product_id, time |-> entry.time,
             timestamp_ms |-> TimestampMs(entry.time * 1000000),
             trade_id |-> <<product_id, request, i - 1>>] >>
    ELSE <<>>

\* the for loop over trades_data of get_trades_streaming, from entry i on:
\* batch_trades
RECURSIVE BatchTrades(_, _, _, _)
BatchTrades(trades_data, i, product_id, request) ==
    IF i > Len(trades_data) THEN <<>>
    ELSE LET entry == trades_data[i]
             here == IF entry.kind # "bad_time" /\ entry.time >= EarliestTimestamp
                     THEN TransformTrade(entry, product_id, request, i)
                     ELSE <<>>
         IN here \o BatchTrades(trades_data, i + 1, product_id, request)

\* the same loop: latest_trade_time
RECURSIVE LatestTradeTime(_, _)
LatestTradeTime(trades_data, i) ==
    IF i > Len(trades_data) THEN 0
    ELSE LET rest == LatestTradeTime(trades_data, i + 1)
             entry == trades_data[i]
         IN IF entry.kind # "bad_time" /\ entry.time > rest THEN entry.time ELSE rest

\* requests per product: as many as the give-up on empty pages needs
MaxRequests == MAX_EMPTY_PAGES

NoPage == [latest_trade_time |-> 0, batch_trades |-> <<>>, last_id |-> NoCursor]

\* KrakenRESTAPI.get_trades(), the batch fetch, as a second run that is given
\* the page responses of the streaming run: its locals, its position `at`
\* ("fetch": about to request a page, "after_page": a non-empty page parsed,
\* "next_product": out of the while loop, "returned") and in_step: it has
\* asked for a page whenever the streaming run has, and not otherwise
\* mutant: the fetch gives up only after a fourth empty page
TooManyEmptyPages_OneMore(n) == n > MAX_EMPTY_PAGES

\* `if consecutive_empty_pages >= 3: break`
TooManyEmptyPages(n) == n >= MAX_EMPTY_PAGES

\* mutant: a page without a cursor does not end the loop
NoMoreData_Ignored(last_id) == FALSE

\* `if not last_id: break`
NoMoreData(last_id) == last_id = NoCursor

\* mutant: a cursor that did not advance is sent again
PaginationStuck_Ignored(since, last_id) == FALSE

\* `if current_since == last_id: break`
PaginationStuck(since, last_id) == since = last_id

NewBatchFetch ==
    [product_idx |-> 1, request_count |-> 0, consecutive_empty_pages |-> 0,
     current_since |-> InitialSince, latest_trade_time |-> 0,
     product_trades |-> <<>>, all_trades |-> <<>>, at |-> "fetch", in_step |-> TRUE]

OutOfStep(b) == [b EXCEPT !.in_step = FALSE]

\* mutant: the trades of a page replace those of the product's earlier pages
BatchFetchPage_KeepsLastPage(b, trades_data) ==
    IF trades_data = <<>>
    THEN [b EXCEPT !.request_count = @ + 1,
                   !.consecutive_empty_pages = @ + 1,
                   !.at = IF TooManyEmptyPages(b.consecutive_empty_pages + 1)
                          THEN "next_product" ELSE "fetch"]
    ELSE [b EXCEPT !.request_count = @ + 1,
                   !.consecutive_empty_pages = 0,
                   !.latest_trade_time = LatestTradeTime(trades_data, 1),
                   !.product_trades = BatchTrades(trades_data, 1, b.product_idx,
                                                  b.request_count + 1),
                   !.at = "after_page"]

\* get_trades, one iteration of `while True` up to the end of the for loop
\* over trades_data
BatchFetchPage(b, trades_data) ==
    IF trades_data = <<>>
    THEN [b EXCEPT !.request_count = @ + 1,
                   !.consecutive_empty_pages = @ + 1,
                   !.at = IF TooManyEmptyPages(b.consecutive_empty_pages + 1)
                          THEN "next_product" ELSE "fetch"]
    ELSE [b EXCEPT !.request_count = @ + 1,
                   !.consecutive_empty_pages = 0,
                   !.latest_trade_time = LatestTradeTime(trades_data, 1),
                   !.product_trades = @ \o BatchTrades(trades_data, 1, b.product_idx,
                                                       b.request_count + 1),
                   !.at = "after_page"]

\* get_trades, the rest of the iteration: the three ways out of the loop
BatchAfterPage(b, last_id) ==
    IF b.latest_trade_time > 0 /\ b.latest_trade_time >= LiveEdge
    THEN [b EXCEPT !.latest_trade_time = 0, !.at = "next_product"]
    ELSE IF NoMoreData(last_id)
    THEN [b EXCEPT !.latest_trade_time = 0, !.at = "next_product"]
    ELSE IF PaginationStuck(b.current_since, last_id)
    THEN [b EXCEPT !.latest_trade_time = 0, !.at = "next_product"]
    ELSE [b EXCEPT !.latest_trade_time = 0, !.current_since = last_id, !.at = "fetch"]

\* get_trades, `for product_id in self.product_ids`: all_trades.extend, then
\* the next product or the return of all_trades
BatchNextProduct(b) ==
    [b EXCEPT !.all_trades = @ \o b.product_trades,
              !.product_trades = <<>>,
              !.product_idx = @ + 1,
              !.request_count = 0,
              !.consecutive_empty_pages = 0,
              !.current_since = InitialSince,
              !.latest_trade_time = 0,
              !.at = IF b.product_idx + 1 > NumProducts THEN "returned" ELSE "fetch"]

-----------------------------------------------------------------------------
(* KrakenWebSocketAPI as an object: its constructor, get_trades() called at *)
(* any time, time passing between calls, and the one write a caller makes   *)
(* to its fields (main.py sets _connected to False).                        *)

\* last_call: [made: a call has been made, forced: whether the caller has set
\* _connected to False since the call before, and if so whether the connector
\* was healthy then ("no", "healthy", "unhealthy"), healthy:
\* _is_connection_healthy() at the start of the call, pre: the fields at its
\* start, res: GetTradesCall's record]
NoCall == [made |-> FALSE, forced |-> "no", healthy |-> FALSE, pre |-> NewApi,
           res |-> GetTradesCall(NewApi, "create_fail", "timeout", 0, 0, "create_fail")]

\* the mark of a write of False to _connected on the fields a
Forced(a) == [NoCall EXCEPT !.forced = IF IsConnectionHealthy(a) THEN "healthy"
                                        ELSE "unhealthy"]

\* no call to describe, the caller's write to _connected still remembered
Forgotten(call) == [NoCall EXCEPT !.forced = call.forced]

\* seconds that pass between two calls
BetweenCalls == {RECONNECT_DELAY, RECV_TIMEOUT}

ApiNew ==
    /\ pc = "start"
    /\ \E o \in ConnectOutcomes :
         api' = Connect(NewApi, o)
    /\ pc' = "idle"
    /\ UNCHANGED <<health_status, coordVars, events, envVars, tradeVars, callVars,
                   exit_code, fetchVars, parsed_trade, dedupVars>>

ApiGetTrades ==
    /\ pc = "idle"
    /\ \E in \in CallInputs(api, TRUE) :
         LET res == GetTradesCall(api, in.c1, in.r, in.e, in.n, in.c2) IN
         /\ api' = res.api
         /\ last_call' = [made |-> TRUE, forced |-> last_call.forced,
                          healthy |-> IsConnectionHealthy(api),
                          pre |-> api, res |-> res]
         /\ delays' = DelaysAfter(DelaysAfter(delays, res.first), res.second)
    /\ UNCHANGED <<pc, health_status, coordVars, events, envVars, tradeVars,
                   exit_code, fetchVars, parsed_trade, dedupVars>>

\* time passes between two calls; last_call describes a call only until then
ApiSleep ==
    /\ pc = "idle"
    /\ \E d \in BetweenCalls :
         api' = [api EXCEPT !.heartbeat_age = HeartbeatAfter(@, d)]
    /\ last_call' = Forgotten(last_call)
    /\ UNCHANGED <<pc, health_status, coordVars, events, envVars, tradeVars,
                   delays, exit_code, fetchVars, parsed_trade, dedupVars>>

\* kraken_api._connected = False
ApiForceDisconnect ==
    /\ pc = "idle"
    /\ api.connected
    /\ api' = [api EXCEPT !.connected = FALSE]
    /\ last_call' = Forced(api)
    /\ UNCHANGED <<pc, health_status, coordVars, events, envVars, tradeVars,
                   delays, exit_code, fetchVars, parsed_trade, dedupVars>>

-----------------------------------------------------------------------------
(* deduplication/main.py: DeduplicationCache *)

\* config.input_topics, one process_topic thread for each entry: INPUT_TOPICS
\* may name a topic more than once, and then two threads share its cache
InputTopics == <<"trades", "trades", "candles">>
Consumers == 1..Len(InputTopics)
Topics == {InputTopics[i] : i \in Consumers}

\* the deduplication keys that messages carry
Keys == 1..NumKeys

\* cache[topic][key] is time.time() - _cache[topic][key] in seconds, kept up
\* to cache_ttl_seconds + 1, or NotCached when the key is not in _cache[topic]
NotCached == -1

\* the empty defaultdict
NewCache == [t \in Topics |-> [k \in Keys |-> NotCached]]

\* the cache d seconds later
CacheAfter(c, d) ==
    [t \in Topics |-> [k \in Keys |->
        IF c[t][k] = NotCached THEN NotCached
        ELSE Min(c[t][k] + d, cache_ttl_seconds + 1)]]

\* is_duplicate, `if key in self._cache[topic]`
InCache(c, topic, key) == c[topic][key] # NotCached

\* is_duplicate, `self._cache[topic][key] = current_time`
Store(c, topic, key) == [c EXCEPT ![topic][key] = 0]

\* `current_time - timestamp > self.ttl_seconds`
Expired(age) == age # NotCached /\ age > cache_ttl_seconds

\* cleanup_expired, the body under the lock
CleanupExpired(c) ==
    [t \in Topics |-> [k \in Keys |->
        IF Expired(c[t][k]) THEN NotCached ELSE c[t][k]]]

\* mutant: the lock is taken without waiting for its holder
CanAcquire_Unlocked(l) == TRUE

\* `with self._lock`, entered by a thread that does not hold it
CanAcquire(l) == l = "free"

\* history: how many is_duplicate calls for a topic and key returned False
\* (passed) and True (dropped) since the key was last removed from the cache
NoReturns == [t \in Topics |-> [k \in Keys |-> [passed |-> 0, dropped |-> 0]]]

ReturnsAfterCall(r, topic, key, dup) ==
    [r EXCEPT ![topic][key] = IF dup THEN [@ EXCEPT !.dropped = @ + 1]
                                     ELSE [@ EXCEPT !.passed = @ + 1]]

ReturnsAfterCleanup(r, c) ==
    [t \in Topics |-> [k \in Keys |->
        IF Expired(c[t][k]) THEN [passed |-> 0, dropped |-> 0] ELSE r[t][k]]]

\* a process_topic thread: not started, between two messages, or inside
\* is_duplicate with the lock, for the key of its message: before the test
\* of the key ("locked") or after it found the key missing ("store")
NotStarted == [at |-> "unstarted", key |-> 0]
Idle == [at |-> "idle", key |-> 0]

\* DeduplicationService.__init__ has returned: _running is False and the
\* cleanup thread has been started
NewService == [running |-> FALSE, healthy |-> TRUE, ready |-> FALSE,
               at |-> "constructed"]

InitDedupVars ==
    /\ service = NewService
    /\ cache = NewCache
    /\ lock = "free"
    /\ worker_pc = "loop"
    /\ consumers = [i \in Consumers |-> NotStarted]
    /\ returns = NoReturns

-----------------------------------------------------------------------------
(* main.py, websocket job *)

NewHealth == [healthy |-> FALSE, ready |-> FALSE, last_trade_time |-> FALSE,
              websocket_connected |-> FALSE, kafka_connected |-> FALSE]

\* mutant: the liveness probe answers 200 as long as the server thread runs
HandleHealth_AlwaysAlive(h) == 200

\* HealthHandler._handle_health: the status code sent, for the flags h
HandleHealth(h) == IF h.healthy THEN 200 ELSE 503

\* HealthHandler._handle_ready: the status code sent, for the flags h
HandleReady(h) == IF h.ready /\ h.websocket_connected THEN 200 ELSE 503

\* the process at its start: module level of main.py, nothing constructed yet
Init ==
    /\ pc = "start"
    /\ api = NewApi
    /\ health_status = NewHealth
    /\ consecutive_errors = 0
    /\ error_backoff_delay = 1
    /\ trade_silence = 0
    /\ connection_health_checks = 0
    /\ events = <<>>
    /\ net_up = TRUE
    /\ next_trade = 1
    /\ up_calls = 0
    /\ yielded = <<>>
    /\ handed = <<>>
    /\ publish_failed = FALSE
    /\ last_call = NoCall
    /\ delays = <<>>
    /\ exit_code = <<>>
    /\ product_idx = 1
    /\ request_count = 0
    /\ consecutive_empty_pages = 0
    /\ current_since = InitialSince
    /\ page = NoPage
    /\ callback_queue = <<>>
    /\ all_trades = <<>>
    /\ batch_fetch = NewBatchFetch
    /\ parsed_trade = NotParsed
    /\ InitDedupVars

\* get_api_client: KrakenWebSocketAPI.__init__, which ends with _connect()
GetApiClient ==
    /\ pc = "start"
    /\ \E o \in ConnectPossible(net_up) :
         api' = Connect(NewApi, o)
    /\ pc' = "job"
    /\ UNCHANGED <<health_status, coordVars, events, envVars, tradeVars, callVars,
                   exit_code, fetchVars, parsed_trade, dedupVars>>

\* run_websocket_job up to the call of process_websocket_data
RunWebsocketJob ==
    /\ pc = "job"
    /\ \E kafka_ok \in BOOLEAN :
         IF kafka_ok
         THEN /\ health_status' = [health_status EXCEPT !.healthy = TRUE,
                                                        !.kafka_connected = TRUE]
              /\ pc' = "process"
         ELSE /\ health_status' = [health_status EXCEPT !.healthy = TRUE,
                                                        !.kafka_connected = FALSE]
              /\ pc' = "raised"
    /\ UNCHANGED <<api, coordVars, events, envVars, tradeVars, callVars, exit_code, fetchVars,
                   parsed_trade, dedupVars>>

\* process_websocket_data before its loop
ProcessWebsocketData ==
    /\ pc = "process"
    /\ health_status' = [health_status EXCEPT !.websocket_connected = TRUE,
                                              !.ready = TRUE]
    /\ consecutive_errors' = 0
    /\ error_backoff_delay' = 1
    /\ trade_silence' = 0
    /\ connection_health_checks' = 0
    /\ pc' = "loop"
    /\ UNCHANGED <<api, events, envVars, tradeVars, callVars, exit_code, fetchVars,
                   parsed_trade, dedupVars>>

\* one kraken_api.get_trades() call of the loop
GetTrades ==
    /\ pc = "loop"
    /\ net_up => up_calls < MaxUpCalls
    /\ \E in \in CallInputs(api, net_up) :
         LET res == GetTradesCall(api, in.c1, in.r, in.e, in.n, in.c2) IN
         /\ next_trade + res.count - 1 <= MaxTrades
         /\ api' = res.api
         /\ events' = [i \in 1..res.count |-> next_trade + i - 1]
         /\ next_trade' = next_trade + res.count
         /\ yielded' = yielded \o [i \in 1..res.count |-> next_trade + i - 1]
         /\ trade_silence' = SilenceAfter(trade_silence,
                                res.first.delay + res.elapsed + res.second.delay)
         /\ last_call' = [made |-> TRUE, forced |-> last_call.forced,
                          healthy |-> IsConnectionHealthy(api),
                          pre |-> api, res |-> res]
         /\ delays' = DelaysAfter(DelaysAfter(delays, res.first), res.second)
         /\ pc' = IF res.raised THEN "except" ELSE "got"
    /\ up_calls' = IF net_up THEN up_calls + 1 ELSE up_calls
    /\ UNCHANGED <<health_status, consecutive_errors, error_backoff_delay,
                   connection_health_checks, net_up, handed,
                   publish_failed, exit_code, fetchVars, parsed_trade, dedupVars>>

\* mutant: the error counter is reset by every get_trades() that returns
HandleEvents_ResetsOnAnyReturn ==
    /\ pc = "got"
    /\ consecutive_errors' = 0
    /\ error_backoff_delay' = 1
    /\ IF events # <<>>
       THEN /\ health_status' = [health_status EXCEPT !.websocket_connected = TRUE]
            /\ trade_silence' = 0
            /\ connection_health_checks' = 0
            /\ pc' = "publish"
            /\ last_call' = NoCall
            /\ UNCHANGED api
       ELSE /\ connection_health_checks' = connection_health_checks + 1
            /\ IF \/ trade_silence > max_silence_duration
                  \/ connection_health_checks + 1 > max_health_checks_without_data
               THEN /\ api' = [api EXCEPT !.connected = FALSE]
                    /\ last_call' = Forced(api)
                    /\ pc' = "except"
               ELSE /\ pc' = "loop"
                    /\ last_call' = NoCall
                    /\ UNCHANGED api
            /\ UNCHANGED <<health_status, trade_silence>>
    /\ UNCHANGED <<events, envVars, tradeVars, delays, exit_code, fetchVars,
                   parsed_trade, dedupVars>>

\* mutant: a batch of trades leaves the error counter and the backoff alone
HandleEvents_NeverResets ==
    /\ pc = "got"
    /\ IF events # <<>>
       THEN /\ health_status' = [health_status EXCEPT !.websocket_connected = TRUE]
            /\ trade_silence' = 0
            /\ connection_health_checks' = 0
            /\ pc' = "publish"
            /\ last_call' = NoCall
            /\ UNCHANGED api
       ELSE /\ connection_health_checks' = connection_health_checks + 1
            /\ IF \/ trade_silence > max_silence_duration
                  \/ connection_health_checks + 1 > max_health_checks_without_data
               THEN /\ api' = [api EXCEPT !.connected = FALSE]
                    /\ last_call' = Forced(api)
                    /\ pc' = "except"
               ELSE /\ pc' = "loop"
                    /\ last_call' = NoCall
                    /\ UNCHANGED api
            /\ UNCHANGED <<health_status, trade_silence>>
    /\ UNCHANGED <<consecutive_errors, error_backoff_delay>>
    /\ UNCHANGED <<events, envVars, tradeVars, delays, exit_code, fetchVars,
                   parsed_trade, dedupVars>>

\* mutant: a stale connection raises without the write to _connected
HandleEvents_KeepsConnection ==
    /\ pc = "got"
    /\ IF events # <<>>
       THEN /\ consecutive_errors' = 0
            /\ error_backoff_delay' = 1
            /\ health_status' = [health_status EXCEPT !.websocket_connected = TRUE]
            /\ trade_silence' = 0
            /\ connection_health_checks' = 0
            /\ pc' = "publish"
            /\ last_call' = NoCall
       ELSE /\ connection_health_checks' = connection_health_checks + 1
            /\ IF \/ trade_silence > max_silence_duration
                  \/ connection_health_checks + 1 > max_health_checks_without_data
               THEN /\ last_call' = Forced(api)
                    /\ pc' = "except"
               ELSE /\ pc' = "loop"
                    /\ last_call' = NoCall
            /\ UNCHANGED <<consecutive_errors, error_backoff_delay, health_status,
                           trade_silence>>
    /\ UNCHANGED <<api, events, envVars, tradeVars, delays, exit_code, fetchVars,
                   parsed_trade, dedupVars>>

\* the loop body after get_trades() returned: `if events:` up to the for loop,
\* or the else branch
HandleEvents ==
    /\ pc = "got"
    /\ IF events # <<>>
       THEN /\ consecutive_errors' = 0
            /\ error_backoff_delay' = 1
            /\ health_status' = [health_status EXCEPT !.websocket_connected = TRUE]
            /\ trade_silence' = 0
            /\ connection_health_checks' = 0
            /\ pc' = "publish"
            /\ last_call' = NoCall
            /\ UNCHANGED api
       ELSE /\ connection_health_checks' = connection_health_checks + 1
            /\ IF \/ trade_silence > max_silence_duration
                  \/ connection_health_checks + 1 > max_health_checks_without_data
               THEN /\ api' = [api EXCEPT !.connected = FALSE]
                    /\ last_call' = Forced(api)
                    /\ pc' = "except"
               ELSE /\ pc' = "loop"
                    /\ last_call' = NoCall
                    /\ UNCHANGED api
            /\ UNCHANGED <<consecutive_errors, error_backoff_delay, health_status,
                           trade_silence>>
    /\ UNCHANGED <<events, envVars, tradeVars, delays, exit_code, fetchVars,
                   parsed_trade, dedupVars>>

\* publish_trade(producer, topic, event): the new health_status
PublishTrade(h, ok) ==
    IF ok
    THEN [h EXCEPT !.kafka_connected = TRUE, !.last_trade_time = TRUE]
    ELSE [h EXCEPT !.kafka_connected = FALSE]

\* mutant: the events of a batch are published from the newest to the oldest
PublishEvent_NewestFirst ==
    /\ pc = "publish"
    /\ events # <<>>
    /\ \E ok \in BOOLEAN :
         /\ health_status' = PublishTrade(health_status, ok)
         /\ handed' = Append(handed, events[Len(events)])
         /\ publish_failed' = (publish_failed \/ ~ok)
    /\ events' = SubSeq(events, 1, Len(events) - 1)
    /\ pc' = IF Len(events) = 1 THEN "loop" ELSE "publish"
    /\ UNCHANGED <<api, coordVars, envVars, yielded, callVars, exit_code, fetchVars,
                   parsed_trade, dedupVars>>

\* one iteration of `for event in events`, with its try/except
PublishEvent ==
    /\ pc = "publish"
    /\ events # <<>>
    /\ \E ok \in BOOLEAN :
         /\ health_status' = PublishTrade(health_status, ok)
         /\ handed' = Append(handed, Head(events))
         /\ publish_failed' = (publish_failed \/ ~ok)
    /\ events' = Tail(events)
    /\ pc' = IF Tail(events) = <<>> THEN "loop" ELSE "publish"
    /\ UNCHANGED <<api, coordVars, envVars, yielded, callVars, exit_code, fetchVars,
                   parsed_trade, dedupVars>>

\* mutant: the backoff delay is slept but never doubled
ExceptBlock_ConstantBackoff ==
    /\ pc = "except"
    /\ consecutive_errors' = consecutive_errors + 1
    /\ connection_health_checks' = 0
    /\ IF consecutive_errors + 1 >= max_consecutive_errors
       THEN /\ health_status' = [health_status EXCEPT !.websocket_connected = FALSE,
                                                      !.healthy = FALSE,
                                                      !.ready = FALSE]
            /\ api' = [api EXCEPT !.heartbeat_age = HeartbeatAfter(@, FATAL_SLEEP)]
            /\ trade_silence' = SilenceAfter(trade_silence, FATAL_SLEEP)
            /\ pc' = "raised"
       ELSE /\ health_status' = [health_status EXCEPT !.websocket_connected = FALSE]
            /\ api' = [api EXCEPT !.heartbeat_age = HeartbeatAfter(@, error_backoff_delay)]
            /\ trade_silence' = SilenceAfter(trade_silence, error_backoff_delay)
            /\ pc' = "loop"
    /\ last_call' = Forgotten(last_call)
    /\ UNCHANGED <<error_backoff_delay, events, envVars, tradeVars, delays, exit_code,
                   fetchVars, parsed_trade, dedupVars>>

\* the except block of the loop
ExceptBlock ==
    /\ pc = "except"
    /\ consecutive_errors' = consecutive_errors + 1
    /\ connection_health_checks' = 0
    /\ IF consecutive_errors + 1 >= max_consecutive_errors
       THEN /\ health_status' = [health_status EXCEPT !.websocket_connected = FALSE,
                                                      !.healthy = FALSE,
                                                      !.ready = FALSE]
            /\ api' = [api EXCEPT !.heartbeat_age = HeartbeatAfter(@, FATAL_SLEEP)]
            /\ trade_silence' = SilenceAfter(trade_silence, FATAL_SLEEP)
            /\ pc' = "raised"
            /\ UNCHANGED error_backoff_delay
       ELSE /\ health_status' = [health_status EXCEPT !.websocket_connected = FALSE]
            /\ api' = [api EXCEPT !.heartbeat_age = HeartbeatAfter(@, error_backoff_delay)]
            /\ trade_silence' = SilenceAfter(trade_silence, error_backoff_delay)
            /\ error_backoff_delay' = Min(error_backoff_delay * 2, max_error_delay)
            /\ pc' = "loop"
    /\ last_call' = Forgotten(last_call)
    /\ UNCHANGED <<events, envVars, tradeVars, delays, exit_code, fetchVars,
                   parsed_trade, dedupVars>>

\* mutant: the exception handler of __main__ ends without sys.exit(1)
MainExcept_ExitsCleanly ==
    /\ pc = "raised"
    /\ health_status' = [health_status EXCEPT !.healthy = FALSE, !.ready = FALSE]
    /\ exit_code' = <<0>>
    /\ pc' = "exited"
    /\ UNCHANGED <<api, coordVars, events, envVars, tradeVars, callVars, fetchVars,
                   parsed_trade, dedupVars>>

\* __main__: except Exception
MainExcept ==
    /\ pc = "raised"
    /\ health_status' = [health_status EXCEPT !.healthy = FALSE, !.ready = FALSE]
    /\ exit_code' = <<1>>
    /\ pc' = "exited"
    /\ UNCHANGED <<api, coordVars, events, envVars, tradeVars, callVars, fetchVars,
                   parsed_trade, dedupVars>>

\* environment: the exchange becomes unreachable for good
NetDown ==
    /\ net_up
    /\ pc \in {"start", "job", "process", "loop", "got", "publish", "except"}
    /\ net_up' = FALSE
    /\ UNCHANGED <<pc, api, health_status, coordVars, events, next_trade, up_calls,
                   tradeVars, callVars, exit_code, fetchVars, parsed_trade, dedupVars>>

-----------------------------------------------------------------------------
(* main.py, backfill job *)

\* mutant: the backfill job marks itself ready as the websocket job does
RunBackfillJob_MarksReady ==
    /\ pc = "start"
    /\ \E kafka_ok \in BOOLEAN :
         IF kafka_ok
         THEN /\ health_status' = [health_status EXCEPT !.healthy = TRUE,
                                                        !.kafka_connected = TRUE,
                                                        !.websocket_connected = TRUE,
                                                        !.ready = TRUE]
              /\ pc' = "fetch"
         ELSE /\ health_status' = [health_status EXCEPT !.healthy = TRUE,
                                                        !.kafka_connected = FALSE]
              /\ pc' = "raised"
    /\ UNCHANGED <<api, coordVars, events, envVars, tradeVars, callVars, exit_code,
                   fetchVars, parsed_trade, dedupVars>>

\* get_api_client and run_backfill_job up to the call of process_historical_data
RunBackfillJob ==
    /\ pc = "start"
    /\ \E kafka_ok \in BOOLEAN :
         IF kafka_ok
         THEN /\ health_status' = [health_status EXCEPT !.healthy = TRUE,
                                                        !.kafka_connected = TRUE]
              /\ pc' = "fetch"
         ELSE /\ health_status' = [health_status EXCEPT !.healthy = TRUE,
                                                        !.kafka_connected = FALSE]
              /\ pc' = "raised"
    /\ UNCHANGED <<api, coordVars, events, envVars, tradeVars, callVars, exit_code,
                   fetchVars, parsed_trade, dedupVars>>

\* get_trades_streaming, one iteration of `while True` up to the callback:
\* the request, the empty-page count, the parsing of the page. An empty page
\* is held as NoPage, the `[], None` that _fetch_trades_page returns for a
\* failed request: it has no cursor, and the cursor of any other empty page is
\* never read
FetchPage ==
    /\ pc = "fetch"
    /\ request_count < MaxRequests
    /\ request_count' = request_count + 1
    /\ \E trades_data \in PageBodies :
         /\ IF trades_data = <<>>
            THEN /\ consecutive_empty_pages' = consecutive_empty_pages + 1
                 /\ pc' = IF TooManyEmptyPages(consecutive_empty_pages + 1)
                          THEN "next_product" ELSE "fetch"
                 /\ page' = NoPage
                 /\ UNCHANGED <<callback_queue, yielded>>
            ELSE LET batch == BatchTrades(trades_data, 1, product_idx,
                                          request_count + 1)
                 IN /\ Len(yielded) + Len(batch) <= MaxTrades
                    /\ consecutive_empty_pages' = 0
                    /\ page' = [latest_trade_time |-> LatestTradeTime(trades_data, 1),
                                batch_trades |-> batch, last_id |-> NoCursor]
                    /\ callback_queue' = batch
                    /\ yielded' = yielded \o batch
                    /\ pc' = IF batch # <<>> THEN "callback" ELSE "after_batch"
         /\ batch_fetch' = IF batch_fetch.at = "fetch"
                           THEN BatchFetchPage(batch_fetch, trades_data)
                           ELSE OutOfStep(batch_fetch)
    /\ UNCHANGED <<api, health_status, coordVars, events, envVars, handed,
                   publish_failed, callVars, exit_code, product_idx, current_since,
                   all_trades, parsed_trade, dedupVars>>

\* the same iteration in a run of any length: request_count is kept modulo
\* RATE_LIMIT_EVERY, which is all that the loop reads of it
\* (`request_count % 10 == 0`), and the batch fetch is not followed
FetchPageAnyRun ==
    /\ pc = "fetch"
    /\ request_count' = (request_count % RATE_LIMIT_EVERY) + 1
    /\ \E trades_data \in PageBodies :
         IF trades_data = <<>>
         THEN /\ consecutive_empty_pages' = consecutive_empty_pages + 1
              /\ pc' = IF TooManyEmptyPages(consecutive_empty_pages + 1)
                       THEN "next_product" ELSE "fetch"
              /\ page' = NoPage
              /\ UNCHANGED <<callback_queue, yielded>>
         ELSE LET batch == BatchTrades(trades_data, 1, product_idx,
                                       (request_count % RATE_LIMIT_EVERY) + 1)
              IN /\ Len(yielded) + Len(batch) <= MaxTrades
                 /\ consecutive_empty_pages' = 0
                 /\ page' = [latest_trade_time |-> LatestTradeTime(trades_data, 1),
                             batch_trades |-> batch, last_id |-> NoCursor]
                 /\ callback_queue' = batch
                 /\ yielded' = yielded \o batch
                 /\ pc' = IF batch # <<>> THEN "callback" ELSE "after_batch"
    /\ batch_fetch' = OutOfStep(batch_fetch)
    /\ UNCHANGED <<api, health_status, coordVars, events, envVars, handed,
                   publish_failed, callVars, exit_code, product_idx, current_since,
                   all_trades, parsed_trade, dedupVars>>

\* publish_batch_to_kafka, one iteration of `for trade in trades`; a failure of
\* publish_trade leaves the callback and is caught by get_trades_streaming
CallbackPublish ==
    /\ pc = "callback"
    /\ callback_queue # <<>>
    /\ \E ok \in BOOLEAN :
         /\ health_status' = PublishTrade(health_status, ok)
         /\ handed' = Append(handed, Head(callback_queue))
         /\ publish_failed' = (publish_failed \/ ~ok)
         /\ callback_queue' = IF ok THEN Tail(callback_queue) ELSE <<>>
         /\ pc' = IF ok /\ Tail(callback_queue) # <<>> THEN "callback" ELSE "after_batch"
    /\ UNCHANGED <<api, coordVars, events, envVars, yielded, callVars, exit_code,
                   product_idx, request_count, consecutive_empty_pages,
                   current_since, page, all_trades, batch_fetch, parsed_trade,
                   dedupVars>>

\* get_trades_streaming called with any callback, `callback(batch_trades)` inside
\* try/except: the callback returns or raises, and a raise is logged and dropped
Callback ==
    /\ pc = "callback"
    /\ \E raises \in BOOLEAN : publish_failed' = (publish_failed \/ raises)
    /\ callback_queue' = <<>>
    /\ pc' = "after_batch"
    /\ UNCHANGED <<api, health_status, coordVars, events, envVars, yielded, handed,
                   callVars, exit_code, product_idx, request_count,
                   consecutive_empty_pages, current_since, page, all_trades,
                   batch_fetch, parsed_trade, dedupVars>>

\* get_trades_streaming, the rest of the iteration: all_trades.extend and the
\* three ways out of the loop; last_id, the cursor that came with the page, is
\* not read before this point and is drawn here; it stays in the local until
\* the next request
AfterBatch ==
    /\ pc = "after_batch"
    /\ all_trades' = all_trades \o page.batch_trades
    /\ \E last_id \in Cursors :
         /\ page' = [NoPage EXCEPT !.last_id = last_id]
         /\ batch_fetch' = IF batch_fetch.at = "after_page"
                           THEN BatchAfterPage(batch_fetch, last_id)
                           ELSE OutOfStep(batch_fetch)
         /\ IF page.latest_trade_time > 0 /\ page.latest_trade_time >= LiveEdge
            THEN pc' = "next_product" /\ UNCHANGED current_since
            ELSE IF NoMoreData(last_id)
            THEN pc' = "next_product" /\ UNCHANGED current_since
            ELSE IF PaginationStuck(current_since, last_id)
            THEN pc' = "next_product" /\ UNCHANGED current_since
            ELSE pc' = "fetch" /\ current_since' = last_id
    /\ UNCHANGED <<api, health_status, coordVars, events, envVars, tradeVars,
                   callVars, exit_code, product_idx, request_count,
                   consecutive_empty_pages, callback_queue, parsed_trade, dedupVars>>

\* get_trades_streaming, `for product_id in self.product_ids`: the next
\* product, or the return of all_trades
NextProduct ==
    /\ pc = "next_product"
    /\ product_idx' = product_idx + 1
    /\ request_count' = 0
    /\ consecutive_empty_pages' = 0
    /\ current_since' = InitialSince
    /\ pc' = IF product_idx + 1 > NumProducts THEN "returned" ELSE "fetch"
    /\ batch_fetch' = IF batch_fetch.at = "next_product"
                      THEN BatchNextProduct(batch_fetch)
                      ELSE OutOfStep(batch_fetch)
    /\ page' = NoPage
    /\ UNCHANGED <<api, health_status, coordVars, events, envVars, tradeVars,
                   callVars, exit_code, callback_queue, all_trades, parsed_trade,
                   dedupVars>>

\* _process_historical_data_streaming after the fetch, run_backfill_job's end
\* and the end of __main__
BackfillCompleted ==
    /\ pc = "returned"
    /\ exit_code' = <<0>>
    /\ pc' = "exited"
    /\ UNCHANGED <<api, health_status, coordVars, events, envVars, tradeVars,
                   callVars, fetchVars, parsed_trade, dedupVars>>

-----------------------------------------------------------------------------
(* deduplication/main.py: DeduplicationService *)

ingestVars == <<pc, api, health_status, coordVars, events, envVars, tradeVars,
                callVars, exit_code, fetchVars, parsed_trade>>

\* seconds that pass between two steps of the threads: time is observed once
\* every cache_ttl_seconds, when a cached key is new, exactly as old as the
\* TTL, or older; a sleep of cache_cleanup_interval is over by then
Elapsed == {cache_ttl_seconds}

\* run, up to the join of the process_topic threads it has started
DedupRun ==
    /\ service.at = "constructed"
    /\ service' = [service EXCEPT !.running = TRUE, !.ready = TRUE, !.at = "joined"]
    /\ consumers' = [i \in Consumers |-> Idle]
    /\ UNCHANGED <<cache, lock, worker_pc, returns, ingestVars>>

\* run, KeyboardInterrupt and the finally block; the process ends with its
\* daemon threads
DedupStop ==
    /\ service.at = "joined"
    /\ service' = [service EXCEPT !.running = FALSE, !.healthy = FALSE,
                                  !.ready = FALSE, !.at = "stopped"]
    /\ UNCHANGED <<cache, lock, worker_pc, consumers, returns, ingestVars>>

\* deduplicate_message on a message with key k, up to `with self._lock` in
\* is_duplicate
BeginIsDuplicate(i, k) ==
    /\ service.at = "joined"
    /\ consumers[i].at = "idle"
    /\ returns[InputTopics[i]][k].passed + returns[InputTopics[i]][k].dropped < MaxCalls
    /\ CanAcquire(lock)
    /\ lock' = "consumer"
    /\ consumers' = [consumers EXCEPT ![i] = [at |-> "locked", key |-> k]]
    /\ UNCHANGED <<service, cache, worker_pc, returns, ingestVars>>

\* is_duplicate under the lock, the test of the key: a key found makes the
\* call return True, and deduplicate_message drops the message
CheckIsDuplicate(i) ==
    /\ service.at = "joined"
    /\ consumers[i].at = "locked"
    /\ IF InCache(cache, InputTopics[i], consumers[i].key)
       THEN /\ returns' = ReturnsAfterCall(returns, InputTopics[i],
                                           consumers[i].key, TRUE)
            /\ lock' = "free"
            /\ consumers' = [consumers EXCEPT ![i] = Idle]
       ELSE /\ consumers' = [consumers EXCEPT ![i].at = "store"]
            /\ UNCHANGED <<lock, returns>>
    /\ UNCHANGED <<service, cache, worker_pc, ingestVars>>

\* is_duplicate under the lock, the key was missing: it is stored, the call
\* returns False, and deduplicate_message passes the message on
StoreIsDuplicate(i) ==
    /\ service.at = "joined"
    /\ consumers[i].at = "store"
    /\ cache' = Store(cache, InputTopics[i], consumers[i].key)
    /\ returns' = ReturnsAfterCall(returns, InputTopics[i], consumers[i].key, FALSE)
    /\ lock' = "free"
    /\ consumers' = [consumers EXCEPT ![i] = Idle]
    /\ UNCHANGED <<service, worker_pc, ingestVars>>

\* a thread inside is_duplicate goes on
EndIsDuplicate == \E i \in Consumers : CheckIsDuplicate(i) \/ StoreIsDuplicate(i)

\* cleanup_worker, `while self._running`
WorkerLoop ==
    /\ service.at # "stopped"
    /\ worker_pc = "loop"
    /\ worker_pc' = IF service.running THEN "sleeping" ELSE "done"
    /\ UNCHANGED <<service, cache, lock, consumers, returns, ingestVars>>

\* time passes while no thread is inside the lock; a sleep of the worker ends
Tick ==
    /\ service.at # "stopped"
    /\ lock = "free"
    /\ \E d \in Elapsed : cache' = CacheAfter(cache, d)
    /\ worker_pc' = IF worker_pc = "sleeping" THEN "slept" ELSE worker_pc
    /\ UNCHANGED <<service, lock, consumers, returns, ingestVars>>

\* cleanup_worker after the sleep: `if self._running`, then cleanup_expired up
\* to `with self._lock`
WorkerWake ==
    /\ service.at # "stopped"
    /\ worker_pc = "slept"
    /\ IF service.running
       THEN /\ CanAcquire(lock)
            /\ lock' = "cleanup"
            /\ worker_pc' = "cleanup"
       ELSE /\ worker_pc' = "loop"
            /\ UNCHANGED lock
    /\ UNCHANGED <<service, cache, consumers, returns, ingestVars>>

\* cleanup_expired under the lock
WorkerCleanup ==
    /\ service.at # "stopped"
    /\ worker_pc = "cleanup"
    /\ cache' = CleanupExpired(cache)
    /\ returns' = ReturnsAfterCleanup(returns, cache)
    /\ lock' = "free"
    /\ worker_pc' = "loop"
    /\ UNCHANGED <<service, consumers, ingestVars>>

Worker == WorkerLoop \/ WorkerWake \/ WorkerCleanup

-----------------------------------------------------------------------------
(* Specifications *)

NextConnector ==
    \/ ApiNew
    \/ ApiGetTrades
    \/ ApiSleep
    \/ ApiForceDisconnect

\* the connector under any caller
SpecConnector == Init /\ [][NextConnector]_vars

MainLive ==
    \/ GetApiClient
    \/ RunWebsocketJob
    \/ ProcessWebsocketData
    \/ GetTrades
    \/ HandleEvents
    \/ PublishEvent
    \/ ExceptBlock
    \/ MainExcept

NextLive == MainLive \/ NetDown

\* the websocket job
SpecLive == Init /\ [][NextLive]_vars

\* the main thread is the only thread of the loop and is never starved
FairSpecLive == SpecLive /\ WF_vars(MainLive)

NextBackfill ==
    \/ RunBackfillJob
    \/ FetchPage
    \/ CallbackPublish
    \/ AfterBatch
    \/ NextProduct
    \/ BackfillCompleted
    \/ MainExcept

\* the backfill job with progressive streaming
SpecBackfill == Init /\ [][NextBackfill]_vars

\* KrakenRESTAPI built by get_api_client, at the call of its fetch method
InitFetch ==
    /\ pc = "fetch"
    /\ api = NewApi
    /\ health_status = NewHealth
    /\ consecutive_errors = 0
    /\ error_backoff_delay = 1
    /\ trade_silence = 0
    /\ connection_health_checks = 0
    /\ events = <<>>
    /\ net_up = TRUE
    /\ next_trade = 1
    /\ up_calls = 0
    /\ yielded = <<>>
    /\ handed = <<>>
    /\ publish_failed = FALSE
    /\ last_call = NoCall
    /\ delays = <<>>
    /\ exit_code = <<>>
    /\ product_idx = 1
    /\ request_count = 0
    /\ consecutive_empty_pages = 0
    /\ current_since = InitialSince
    /\ page = NoPage
    /\ callback_queue = <<>>
    /\ all_trades = <<>>
    /\ batch_fetch = NewBatchFetch
    /\ parsed_trade = NotParsed
    /\ InitDedupVars

NextFetch ==
    \/ FetchPage
    \/ Callback
    \/ AfterBatch
    \/ NextProduct

\* get_trades_streaming with any callback, and get_trades on the same responses
SpecFetch == InitFetch /\ [][NextFetch]_vars

NextPaging ==
    \/ FetchPageAnyRun
    \/ Callback
    \/ AfterBatch
    \/ NextProduct

\* get_trades_streaming with any callback, over any number of pages; the thread
\* that runs the loop is never starved
FairSpecPaging == InitFetch /\ [][NextPaging]_vars /\ WF_vars(NextPaging)

NextDedup ==
    \/ DedupRun
    \/ DedupStop
    \/ \E i \in Consumers, k \in Keys : BeginIsDuplicate(i, k)
    \/ \E i \in Consumers : CheckIsDuplicate(i)
    \/ \E i \in Consumers : StoreIsDuplicate(i)
    \/ Worker
    \/ Tick

\* the deduplication service
SpecDedup == Init /\ [][NextDedup]_vars

\* every thread of the service that can run does run: the main thread calls
\* run, a thread inside the lock leaves it, the worker is never starved, and
\* time passes
FairSpecDedup ==
    /\ SpecDedup
    /\ WF_vars(DedupRun)
    /\ WF_vars(EndIsDuplicate)
    /\ WF_vars(Worker)
    /\ WF_vars(Tick)

\* run: the job the configuration selects
NextService == NextLive \/ NextBackfill

\* the trades service in either job mode
SpecService == Init /\ [][NextService]_vars

\* a raw trade whose time is a whole number of microseconds, before either
\* parser has seen it
InitParse ==
    /\ pc = "parse"
    /\ api = NewApi
    /\ health_status = NewHealth
    /\ consecutive_errors = 0
    /\ error_backoff_delay = 1
    /\ trade_silence = 0
    /\ connection_health_checks = 0
    /\ events = <<>>
    /\ net_up = TRUE
    /\ next_trade = 1
    /\ up_calls = 0
    /\ yielded = <<>>
    /\ handed = <<>>
    /\ publish_failed = FALSE
    /\ last_call = NoCall
    /\ delays = <<>>
    /\ exit_code = <<>>
    /\ product_idx = 1
    /\ request_count = 0
    /\ consecutive_empty_pages = 0
    /\ current_since = InitialSince
    /\ page = NoPage
    /\ callback_queue = <<>>
    /\ all_trades = <<>>
    /\ batch_fetch = NewBatchFetch
    /\ \E us \in 0..MaxMicros :
         parsed_trade = [source |-> "raw", trade_time_us |-> us, timestamp_ms |-> 0]
    /\ InitDedupVars

\* KrakenRESTAPI._transform_trade on the raw trade
ParseRest ==
    /\ parsed_trade.source = "raw"
    /\ parsed_trade' = [parsed_trade EXCEPT
                          !.source = "rest",
                          !.timestamp_ms = TimestampMs(parsed_trade.trade_time_us)]
    /\ UNCHANGED <<pc, api, health_status, coordVars, events, envVars, tradeVars,
                   callVars, exit_code, fetchVars, dedupVars>>

\* KrakenWebSocketAPI.get_trades, the Trade built from the raw trade
ParseWebsocket ==
    /\ parsed_trade.source = "raw"
    /\ parsed_trade' = [parsed_trade EXCEPT
                          !.source = "websocket",
                          !.timestamp_ms = WebsocketTimestampMs(parsed_trade.trade_time_us)]
    /\ UNCHANGED <<pc, api, health_status, coordVars, events, envVars, tradeVars,
                   callVars, exit_code, fetchVars, dedupVars>>

NextParse ==
    \/ ParseRest
    \/ ParseWebsocket

\* the two parsers of a raw trade's time
SpecParse == InitParse /\ [][NextParse]_vars

\* the reconnect delays of the first seven get_trades() calls of a job whose
\* connector could not connect, neither in its constructor nor since
QuietReconnects == <<5, 10, 20, 40, 60, 60, 60>>

RECURSIVE SumSeq(_)
SumSeq(q) == IF q = <<>> THEN 0 ELSE Head(q) + SumSeq(Tail(q))

\* the loop of process_websocket_data after those seven calls: each has slept
\* its delay, failed to connect and returned the empty list
InitQuiet ==
    /\ pc = "loop"
    /\ api = [ws_client |-> FALSE, connected |-> FALSE,
              heartbeat_age |-> HeartbeatAfter(0, SumSeq(QuietReconnects)),
              reconnect_attempts |-> Len(QuietReconnects)]
    /\ health_status = [healthy |-> TRUE, ready |-> TRUE, last_trade_time |-> FALSE,
                        websocket_connected |-> TRUE, kafka_connected |-> TRUE]
    /\ consecutive_errors = 0
    /\ error_backoff_delay = 1
    /\ trade_silence = SilenceAfter(0, SumSeq(QuietReconnects))
    /\ connection_health_checks = Len(QuietReconnects)
    /\ events = <<>>
    /\ net_up = TRUE
    /\ next_trade = 1
    /\ up_calls = 0
    /\ yielded = <<>>
    /\ handed = <<>>
    /\ publish_failed = FALSE
    /\ last_call = NoCall
    /\ delays = QuietReconnects
    /\ exit_code = <<>>
    /\ product_idx = 1
    /\ request_count = 0
    /\ consecutive_empty_pages = 0
    /\ current_since = InitialSince
    /\ page = NoPage
    /\ callback_queue = <<>>
    /\ all_trades = <<>>
    /\ batch_fetch = NewBatchFetch
    /\ parsed_trade = NotParsed
    /\ InitDedupVars

NextLoop ==
    \/ GetTrades
    \/ HandleEvents
    \/ PublishEvent
    \/ ExceptBlock
    \/ MainExcept
    \/ NetDown

\* the websocket job from a long quiet period on
SpecQuiet == InitQuiet /\ [][NextLoop]_vars

\* the loop of process_websocket_data on a quiet market: since the connect, and
\* within the same second, nine get_trades() calls have each received a
\* heartbeat and returned the empty list
InitIdle ==
    /\ pc = "loop"
    /\ api = [ws_client |-> TRUE, connected |-> TRUE,
              heartbeat_age |-> 0, reconnect_attempts |-> 0]
    /\ health_status = [healthy |-> TRUE, ready |-> TRUE, last_trade_time |-> FALSE,
                        websocket_connected |-> TRUE, kafka_connected |-> TRUE]
    /\ consecutive_errors = 0
    /\ error_backoff_delay = 1
    /\ trade_silence = 0
    /\ connection_health_checks = max_health_checks_without_data - 1
    /\ events = <<>>
    /\ net_up = TRUE
    /\ next_trade = 1
    /\ up_calls = 0
    /\ yielded = <<>>
    /\ handed = <<>>
    /\ publish_failed = FALSE
    /\ last_call = NoCall
    /\ delays = <<>>
    /\ exit_code = <<>>
    /\ product_idx = 1
    /\ request_count = 0
    /\ consecutive_empty_pages = 0
    /\ current_since = InitialSince
    /\ page = NoPage
    /\ callback_queue = <<>>
    /\ all_trades = <<>>
    /\ batch_fetch = NewBatchFetch
    /\ parsed_trade = NotParsed
    /\ InitDedupVars

\* the websocket job from a run of heartbeats on
SpecIdle == InitIdle /\ [][NextLoop]_vars

-----------------------------------------------------------------------------
(* Claims about the Live Connector, checked under SpecConnector.  A state  *)
(* with last_call.made is the state in which a get_trades() call has just *)
(* returned or raised.                                                     *)

Call == last_call.res

\* C3: once the reconnect-attempt counter has reached the maximum (10), a
\* get_trades() call on the still-unhealthy connector raises instead of
\* returning a list.
C3_RaisesAtMaxAttempts ==
    (/\ last_call.made
     /\ ~last_call.healthy
     /\ last_call.pre.reconnect_attempts >= 10)
    => Call.raised

\* C5 as claimed: a call that starts unhealthy makes a reconnection attempt (a
\* new connect) before any receive, and makes no receive if it did not succeed.
C5_ReconnectsBeforeReceive ==
    (last_call.made /\ ~last_call.healthy)
    => /\ Call.first.connects = 1
       /\ (~Call.first.ok => Call.recv = "none")

\* C5 as amended: a call that starts unhealthy makes one connect before any
\* receive unless the attempt counter has already reached 10, and then it
\* makes none; a receive is made only on the connection that this reconnect
\* has just established, and a call whose reconnect did not succeed makes no
\* receive and returns the empty list.
C5_ReconnectsBeforeReceiveBelowMax ==
    (last_call.made /\ ~last_call.healthy)
    => /\ Call.first.connects = (IF last_call.pre.reconnect_attempts < 10 THEN 1 ELSE 0)
       /\ (Call.recv # "none"
             => /\ Call.first.connects = 1 /\ Call.first.ok
                /\ Call.mid.connected /\ Call.mid.ws_client
                /\ Call.mid.heartbeat_age = 0)
       /\ (~Call.first.ok
             => Call.recv = "none" /\ ~Call.raised /\ Call.count = 0)

C5_Witness ==
    /\ last_call.made /\ ~last_call.healthy
    /\ Call.first.connects = 1 /\ Call.first.ok
    /\ Call.recv = "batch"

\* C6: the health check at the start of a call answers true exactly when the
\* connector is marked connected, holds a socket handle and the last heartbeat
\* is no more than 30 seconds old.
C6_HealthyIffConnectedAndFresh ==
    last_call.made
    => (last_call.healthy <=> (/\ last_call.pre.connected
                               /\ last_call.pre.ws_client
                               /\ last_call.pre.heartbeat_age <= 30))

C6_Witness ==
    /\ last_call.made /\ last_call.healthy
    /\ last_call.pre.heartbeat_age = 30
    /\ Call.first.connects = 0

\* C7: the k-th reconnection attempt since the last successful connect waits
\* min(5 * 2^(k-1), 60) seconds, i.e. 5,10,20,40,60,60,...; the attempt counter
\* stays within 0..10 and is 0 after every successful connect.
ExpectedDelays == <<5, 10, 20, 40, 60, 60, 60, 60, 60, 60>>

LastConnectSucceeded ==
    \/ Call.second.connects = 1 /\ Call.second.ok
    \/ Call.second.connects = 0 /\ Call.first.connects = 1 /\ Call.first.ok

ClosedOutcome ==
    IF Call.second.ok
    THEN /\ ~Call.raised /\ Call.count = 0
         /\ api.connected /\ api.ws_client /\ api.heartbeat_age = 0
    ELSE Call.raised /\ ~api.connected

\* C8 as claimed: when the receive raises connection-closed, the call makes
\* exactly one reconnect attempt within that call; if it succeeds the call
\* returns the empty list and the connector is connected, if it fails the call
\* raises.
C8_ClosedReconnectsOnce ==
    (last_call.made /\ Call.recv = "closed")
    => /\ Call.first.connects + Call.second.connects = 1
       /\ ClosedOutcome

\* C8 as amended: when the receive raises connection-closed, the call makes
\* exactly one reconnect attempt after the failed receive, with the outcomes
\* claimed; it is the only attempt of a call that began healthy, and the
\* second of a call that began unhealthy and had to reconnect to receive.
C8_ClosedReconnectsOnceAfterReceive ==
    (last_call.made /\ Call.recv = "closed")
    => /\ Call.second.connects = 1
       /\ Call.first.connects = (IF last_call.healthy THEN 0 ELSE 1)
       /\ ClosedOutcome

C8_Witness ==
    /\ last_call.made /\ Call.recv = "closed"
    /\ Call.second.ok /\ ~Call.raised /\ api.connected

\* the connected flag, the socket handle and the reconnect counter are at
\* return what they were when the receive began
ConnectionKept ==
    /\ Call.api.connected = Call.mid.connected
    /\ Call.api.ws_client = Call.mid.ws_client
    /\ Call.api.reconnect_attempts = Call.mid.reconnect_attempts

\* the last-heartbeat time is at return what it was when the receive began:
\* its age has grown by the time the receive took
HeartbeatKept ==
    Call.api.heartbeat_age = Min(Call.mid.heartbeat_age + Call.elapsed, 31)

\* C9: a message without a usable trade payload (a heartbeat, undecodable
\* JSON, an envelope without data, trade objects with missing or invalid
\* fields) makes get_trades() return the empty list with the connection state
\* unchanged, only a heartbeat changing the last-heartbeat time; a well-formed
\* batch is returned in full.
C9_NoPayloadLeavesState ==
    /\ (last_call.made /\ Call.recv \in {"heartbeat", "bad_json", "no_data", "bad_fields"})
       => /\ ~Call.raised /\ Call.count = 0
          /\ ConnectionKept
          /\ (Call.recv # "heartbeat" => HeartbeatKept)
    /\ (last_call.made /\ Call.recv = "batch")
       => ~Call.raised /\ Call.count >= 1 /\ ConnectionKept

\* C10 as claimed: a receive timeout makes get_trades() return the empty
\* list with the connected flag, the socket handle, the last-heartbeat time
\* and the reconnect counter as they were at the start of the call, and no
\* reconnect is attempted in that call.
C10_TimeoutLeavesState ==
    (last_call.made /\ Call.recv = "timeout")
    => /\ ~Call.raised /\ Call.count = 0
       /\ Call.first.connects = 0 /\ Call.second.connects = 0
       /\ api.connected = last_call.pre.connected
       /\ api.ws_client = last_call.pre.ws_client
       /\ api.reconnect_attempts = last_call.pre.reconnect_attempts
       /\ api.heartbeat_age = Min(last_call.pre.heartbeat_age + Call.elapsed, 31)

\* C10 as amended: a receive timeout makes get_trades() return the empty
\* list, with no reconnect attempted after it and the connected flag, the
\* socket handle, the last-heartbeat time and the reconnect counter as they
\* were when the receive began; in a call that began healthy they are as they
\* were at the start of the call and the call has made no connect at all.
C10_TimeoutLeavesStateSinceReceive ==
    (last_call.made /\ Call.recv = "timeout")
    => /\ ~Call.raised /\ Call.count = 0
       /\ Call.second.connects = 0
       /\ ConnectionKept
       /\ HeartbeatKept
       /\ Call.elapsed = 10
       /\ api = Call.api
       /\ (last_call.healthy
             => Call.first.connects = 0 /\ Call.mid = last_call.pre)

C10_Witness ==
    /\ last_call.made /\ Call.recv = "timeout"
    /\ last_call.healthy
    /\ api.connected /\ api.heartbeat_age = 20

-----------------------------------------------------------------------------
(* Claims about the websocket job, checked under SpecLive and FairSpecLive *)

\* C2: a publish failure is never absorbed: once publish_trade has raised, the
\* failure has left the Coordinator's processing function, so the job is in
\* its raised state or has exited with status 1, and is not going on with the
\* loop.
C2_PublishFailurePropagates ==
    publish_failed => (pc = "raised" \/ exit_code = <<1>>)

\* C4: when the exchange can not be reached any more (or never could), the
\* loop of process_websocket_data does not retry or poll for ever: it reaches
\* its fifth consecutive error, sets healthy to false and raises.
C4_EventuallyFatal ==
    (~net_up /\ pc \in {"loop", "got", "publish", "except"})
    ~> (pc = "raised" /\ ~health_status.healthy /\ consecutive_errors = 5)

C4_Witness ==
    /\ ~net_up
    /\ pc = "raised"
    /\ ~health_status.healthy
    /\ consecutive_errors = 5
    /\ api.reconnect_attempts = 10

\* C11: when the loop finds that no trade has been observed for more than 300
\* seconds, with get_trades() having returned on a healthy connector and no
\* error counted, it sets the connector to disconnected and raises; the except
\* block then goes on with the loop, and the get_trades() call that follows
\* starts unhealthy and makes one connect before any receive, receiving only
\* on the connection that this connect has established.
C11_SilenceForcesReconnect ==
    /\ [][(/\ pc = "got" /\ pc' # "got"
           /\ events = <<>>
           /\ trade_silence > 300
           /\ IsConnectionHealthy(api)
           /\ consecutive_errors = 0)
          => (~api'.connected /\ last_call'.forced = "healthy" /\ pc' = "except")]_vars
    /\ [][(/\ pc = "except" /\ pc' # "except"
           /\ last_call.forced = "healthy"
           /\ consecutive_errors = 0)
          => (pc' = "loop" /\ ~api'.connected /\ last_call'.forced = "healthy")]_vars
    /\ [](last_call.made /\ last_call.forced = "healthy"
          => /\ ~last_call.healthy
             /\ Call.first.connects = 1
             /\ (Call.recv # "none"
                   => Call.first.ok /\ Call.mid.connected /\ Call.mid.ws_client))

C11_Witness ==
    /\ pc = "got"
    /\ last_call.made /\ last_call.forced = "healthy"
    /\ consecutive_errors = 1
    /\ trade_silence > 300
    /\ Call.first.connects = 1 /\ Call.first.ok
    /\ Call.recv = "batch"

\* what the except block does with a failure of the loop body: it counts it;
\* below the threshold of 5 it sleeps the current backoff, doubles the backoff
\* up to 60 and goes on with the loop, and with the fifth it sets healthy and
\* ready to false and raises
FailureHandled ==
    (pc = "except" /\ pc' # "except")
    => /\ consecutive_errors' = consecutive_errors + 1
       /\ IF consecutive_errors + 1 < 5
          THEN /\ pc' = "loop"
               /\ trade_silence' = Min(trade_silence + error_backoff_delay, 301)
               /\ api'.heartbeat_age = Min(api.heartbeat_age + error_backoff_delay, 31)
               /\ error_backoff_delay' = Min(2 * error_backoff_delay, 60)
               /\ health_status'.healthy = health_status.healthy
               /\ health_status'.ready = health_status.ready
          ELSE /\ pc' = "raised"
               /\ ~health_status'.healthy /\ ~health_status'.ready

\* in the loop the count is below 5 and the backoff is 1 second doubled once
\* for every failure counted, so never above 60
BackoffFollowsCount ==
    pc \in {"loop", "got", "publish", "except"}
    => /\ consecutive_errors \in 0..4
       /\ error_backoff_delay = 2 ^ consecutive_errors
       /\ error_backoff_delay <= 60

\* once process_websocket_data has raised there is no further get_trades()
\* call: the process only exits
NoCallAfterRaise ==
    pc \in {"raised", "exited"} => (pc' \in {"raised", "exited"} /\ api' = api)

Fatal == pc \in {"raised", "exited"} /\ ~health_status.healthy

\* C13: the fatal state is absorbing: the fifth failure leaves the loop with
\* healthy and ready false, and from a state in which the fatal path has set
\* healthy to false no step sets healthy or ready back to true, so in all
\* these states /health answers 503.
C13_FatalIsAbsorbing ==
    /\ [](pc = "raised" /\ consecutive_errors = 5 => Fatal)
    /\ [](Fatal => ~health_status.ready /\ HandleHealth(health_status) = 503)
    /\ [][Fatal => Fatal']_vars

C13_Witness ==
    /\ pc = "exited" /\ exit_code = <<1>>
    /\ consecutive_errors = 5
    /\ Fatal
    /\ HandleHealth(health_status) = 503

\* C14: /ready answers 200 only in states where healthy, websocket_connected
\* and kafka_connected are all true.
C14_ReadyOnlyWhenAllTrue ==
    HandleReady(health_status) = 200
    => /\ health_status.healthy
       /\ health_status.websocket_connected
       /\ health_status.kafka_connected

-----------------------------------------------------------------------------
(* Claims about the backfill job, checked under SpecBackfill *)

\* how many times trade t was passed to publish_trade
Occurrences(t) == Cardinality({i \in 1..Len(handed) : handed[i] = t})

\* C1: every Trade yielded to the Coordinator is handed to the producer exactly
\* once: no trade is ever handed twice, and whenever the Coordinator is not in
\* the middle of a batch every trade yielded so far has been handed once.
C1_HandedExactlyOnce ==
    /\ \A i \in 1..Len(handed) : Occurrences(handed[i]) = 1
    /\ pc \notin {"callback", "got", "publish"} =>
          \A i \in 1..Len(yielded) : Occurrences(yielded[i]) = 1

-----------------------------------------------------------------------------
(* Claims about the historical fetch *)

\* a step of the streaming fetch that received a page: empty or not
StreamingGotEmptyPage == pc = "fetch" /\ pc' \in {"fetch", "next_product"}
StreamingGotPage == pc = "fetch" /\ pc' \in {"callback", "after_batch"}

\* the same for the batch fetch
BatchGotEmptyPage ==
    batch_fetch.at = "fetch" /\ batch_fetch'.at \in {"fetch", "next_product"}
BatchGotPage == batch_fetch.at = "fetch" /\ batch_fetch'.at = "after_page"

C16_StuckPaginationStops ==
    /\ [][/\ pc = "after_batch" =>
               /\ all_trades' = all_trades \o page.batch_trades
               /\ page'.last_id = current_since =>
                     (pc' = "next_product" /\ current_since' = current_since)
          /\ pc = "next_product" =>
               (product_idx' = product_idx + 1 /\ request_count' = 0)
          /\ batch_fetch.at = "after_page" =>
               /\ batch_fetch'.product_trades = batch_fetch.product_trades
               /\ page'.last_id = batch_fetch.current_since =>
                     /\ batch_fetch'.at = "next_product"
                     /\ batch_fetch'.current_since = batch_fetch.current_since
          /\ batch_fetch.at = "next_product" =>
               /\ batch_fetch'.product_idx = batch_fetch.product_idx + 1
               /\ batch_fetch'.all_trades =
                     batch_fetch.all_trades \o batch_fetch.product_trades]_vars
    /\ [](/\ pc # "raised"
          /\ pc \in {"fetch", "next_product", "returned"} => all_trades = yielded
          /\ batch_fetch.at \in {"fetch", "next_product"} =>
                batch_fetch.all_trades \o batch_fetch.product_trades = yielded
          /\ batch_fetch.at = "returned" => batch_fetch.all_trades = yielded
          /\ \A i \in 1..Len(all_trades) : all_trades[i].time >= EarliestTimestamp)

\* the second page of a product came back with the cursor it was requested
\* with: both fetches have left the loop holding the trades of both pages
C16_Witness ==
    /\ pc = "next_product" /\ request_count = 2
    /\ page.last_id = current_since
    /\ Len(all_trades) = 2
    /\ \A i \in 1..2 : all_trades[i].trade_id[1] = product_idx
    /\ batch_fetch.at = "next_product" /\ batch_fetch.request_count = 2
    /\ batch_fetch.product_trades = all_trades

\* C17: run on the same page responses, get_trades_streaming, whatever its
\* callback does, and get_trades are at the same point of the same product
\* with the same request count and the same cursor whenever a request is due,
\* so they issue the same requests; they return together, with the same list
\* of trades in the same order, and that list is the concatenation of the
\* batches that were passed to the callback.
C17_StreamingEqualsBatch ==
    /\ batch_fetch.in_step
    /\ batch_fetch.at = CASE pc = "fetch" -> "fetch"
                          [] pc \in {"callback", "after_batch"} -> "after_page"
                          [] pc = "next_product" -> "next_product"
                          [] OTHER -> "returned"
    /\ pc # "returned" =>
          /\ batch_fetch.product_idx = product_idx
          /\ batch_fetch.request_count = request_count
          /\ batch_fetch.current_since = current_since
    /\ pc = "returned" =>
          /\ batch_fetch.all_trades = all_trades
          /\ yielded = all_trades

\* both fetches have returned the trades of two pages, and a callback raised
C17_Witness ==
    /\ pc = "returned" /\ batch_fetch.at = "returned"
    /\ publish_failed
    /\ Len(all_trades) = 2
    /\ all_trades[1].trade_id[2] = 1 /\ all_trades[2].trade_id[2] = 2

\* C18: in every historical pagination run the trades emitted for one product,
\* in emission order across its pages, never decrease in timestamp_ms.
C18_NonDecreasingPerProduct ==
    \A i, j \in 1..Len(yielded) :
        (i < j /\ yielded[i].product_id = yielded[j].product_id) =>
            yielded[i].timestamp_ms <= yielded[j].timestamp_ms

\* s is t with some elements left out, the others in their order
RECURSIVE IsSubsequence(_, _)
IsSubsequence(s, t) ==
    IF s = <<>> THEN TRUE
    ELSE IF t = <<>> THEN FALSE
    ELSE IF Head(s) = Head(t) THEN IsSubsequence(Tail(s), Tail(t))
    ELSE IsSubsequence(s, Tail(t))

\* the backfill job has fetched at least one page
InBackfill == request_count > 0 \/ product_idx > 1

\* C19: trades are handed to the producer in the order they arrived. In live
\* mode the trades handed so far followed by the events of the current batch
\* still to publish are exactly the trades get_trades() has returned, and no
\* receive starts while events remain. In backfill streaming mode the trades
\* handed are trades of the fetched pages in fetch order, the trades of the
\* page being published are the last ones fetched, and no page is requested
\* while trades of the previous page remain to publish.
C19_PublishOrderIsArrivalOrder ==
    /\ IsSubsequence(handed, yielded)
    /\ ~InBackfill =>
          /\ handed \o events = yielded
          /\ pc = "loop" => events = <<>>
    /\ InBackfill =>
          /\ pc # "callback" => callback_queue = <<>>
          /\ pc = "callback" =>
                /\ callback_queue # <<>>
                /\ Len(callback_queue) <= Len(page.batch_trades)
                /\ SubSeq(yielded, Len(yielded) - Len(callback_queue) + 1, Len(yielded))
                      = callback_queue
                /\ SubSeq(handed, Len(handed) -
                            (Len(page.batch_trades) - Len(callback_queue)) + 1,
                          Len(handed))
                      = SubSeq(page.batch_trades, 1,
                               Len(page.batch_trades) - Len(callback_queue))

\* live mode: the single get_trades() call made so far returned two trades,
\* both have been handed to the producer in their order, one of them failing
\* to publish, and the loop is about to receive again
C19_Witness ==
    /\ ~InBackfill /\ pc = "loop"
    /\ Len(handed) = 2 /\ handed = yielded
    /\ up_calls = 1
    /\ publish_failed

\* C20: on either fetch path the timestamp_ms of a parsed trade is the trade
\* time in milliseconds rounded to the nearest integer: it is within half a
\* millisecond (500 microseconds) of the trade time.
C20_TimestampMsIsRounded ==
    parsed_trade.source \in {"rest", "websocket"} =>
        /\ parsed_trade.timestamp_ms * 1000 - parsed_trade.trade_time_us <= 500
        /\ parsed_trade.trade_time_us - parsed_trade.timestamp_ms * 1000 <= 500

\* the historical fetch has gone through every product and returned
FetchReturned == product_idx > NumProducts

\* C21: the exit code is 1 on every path that leaves by an exception: the
\* fifth consecutive error of the live loop (a raise of the connector counts as
\* one of them) and a failed Kafka connection test in either job; it is 0 when
\* the backfill fetch has returned, with or without trades. A backfill whose
\* fetch has returned never exits with 1, and the live job never exits with 0.
C21_ExitOutcome ==
    /\ [][pc = "raised" => exit_code' = <<1>>]_vars
    /\ [][pc = "returned" => exit_code' = <<0>>]_vars
    /\ [](pc = "exited" <=> exit_code # <<>>)
    /\ [](exit_code = <<0>> <=> (pc = "exited" /\ FetchReturned))
    /\ [](exit_code = <<1>> <=> (pc = "exited" /\ ~FetchReturned))
    /\ [](consecutive_errors >= max_consecutive_errors => pc \in {"raised", "exited"})
    /\ [](FetchReturned => pc \in {"returned", "exited"})

\* the backfill has exited with 0 although no trade was fetched or published
C21_Witness ==
    /\ pc = "exited" /\ exit_code = <<0>>
    /\ FetchReturned
    /\ yielded = <<>> /\ handed = <<>>

\* C22 as stated: a page that comes without a cursor ends the loop of its
\* product, whether the page is empty or not: the next step of the fetch is
\* the next product and not another request.
C22_NoCursorStopsLoop ==
    [][/\ (StreamingGotEmptyPage /\ page'.last_id = NoCursor) => pc' = "next_product"
       /\ (pc = "after_batch" /\ page'.last_id = NoCursor) => pc' = "next_product"]_vars

\* C22, amended: the cursor is read at the end of an iteration on a non-empty
\* page only. There, in both fetches, a page without a cursor ends the loop of
\* its product with the cursor to send unchanged, whether or not any entry of
\* the page became a trade. An empty page is answered by another request,
\* cursor or not, unless it is the third empty page in a row.
C22_NoCursorStopsAfterTrades ==
    [][/\ (pc = "after_batch" /\ page'.last_id = NoCursor) =>
            (pc' = "next_product" /\ current_since' = current_since)
       /\ (pc = "after_batch" /\ batch_fetch.at = "after_page"
                               /\ page'.last_id = NoCursor) =>
            /\ batch_fetch'.at = "next_product"
            /\ batch_fetch'.current_since = batch_fetch.current_since
       /\ pc = "next_product" => request_count' = 0
       /\ StreamingGotEmptyPage =>
            (pc' = "fetch") = (consecutive_empty_pages' < MAX_EMPTY_PAGES)
       /\ BatchGotEmptyPage =>
            (batch_fetch'.at = "fetch") =
               (batch_fetch'.consecutive_empty_pages < MAX_EMPTY_PAGES)]_vars

\* the second page of a product, with one trade older than the live edge, came
\* without a cursor: both fetches have left the loop of the product
C22_Witness ==
    /\ pc = "next_product" /\ request_count = 2
    /\ consecutive_empty_pages = 0
    /\ page.last_id = NoCursor
    /\ Len(all_trades) = 1
    /\ all_trades[1].trade_id[2] = 2 /\ all_trades[1].time < LiveEdge
    /\ batch_fetch.at = "next_product" /\ batch_fetch.product_trades = all_trades

C24_ForcedOnlyAfterSilence ==
    /\ [][(pc = "got" /\ pc' # "got" /\ api' # api)
          => trade_silence > max_silence_duration]_vars
    /\ [][(/\ pc = "got" /\ pc' # "got"
           /\ events = <<>>
           /\ trade_silence <= max_silence_duration)
          => (api' = api /\ pc' = "loop")]_vars
    /\ [][(pc = "except" /\ pc' # "except" /\ last_call.forced # "no")
          => trade_silence > max_silence_duration]_vars

\* C25: the age of the last heartbeat goes back to 0 only in a get_trades()
\* call that connected successfully or received a heartbeat; a call that
\* received a trade batch returns the trades with the age grown by the time
\* the receive took, and nothing else changed. A connector that is connected
\* with a heartbeat more than 30 seconds old at the start of a call is
\* unhealthy there and the call makes one connect before any receive.
C25_TradesDoNotRefreshHeartbeat ==
    /\ [][api'.heartbeat_age < api.heartbeat_age
          => /\ last_call'.made
             /\ \/ last_call'.res.recv = "heartbeat"
                \/ last_call'.res.first.connects = 1 /\ last_call'.res.first.ok
                \/ last_call'.res.second.connects = 1 /\ last_call'.res.second.ok]_vars
    /\ [](last_call.made /\ Call.recv = "batch"
          => /\ Call.count >= 1 /\ ~Call.raised
             /\ api = [Call.mid EXCEPT
                         !.heartbeat_age = HeartbeatAfter(@, Call.elapsed)])
    /\ [](api.connected => api.reconnect_attempts = 0)
    /\ [](/\ last_call.made
          /\ last_call.pre.connected /\ last_call.pre.ws_client
          /\ last_call.pre.heartbeat_age > HEARTBEAT_TIMEOUT
          => /\ ~last_call.healthy
             /\ Call.first.connects = 1
             /\ Call.recv # "none" => (Call.first.ok /\ Call.mid.heartbeat_age = 0))

\* a call that began connected and healthy has returned a trade batch, and the
\* connector, still connected, is now unhealthy: its heartbeat is too old
C25_Witness ==
    /\ last_call.made /\ last_call.healthy
    /\ Call.recv = "batch" /\ Call.count >= 1
    /\ Call.first.connects = 0
    /\ api.connected /\ api.ws_client
    /\ api.heartbeat_age > HEARTBEAT_TIMEOUT
    /\ ~IsConnectionHealthy(api)

\* C26: whatever the endpoint answers, the loop of a product that is about to
\* request a page makes finitely many requests and then leaves the product.
C26_PaginationEnds ==
    (pc = "fetch") ~> (pc \in {"next_product", "returned"})

\* C27: the websocket_connected flag is true only while the connector is in
\* its connected state, so /ready does not answer 200 while the connector is
\* disconnected.
C27_FlagFollowsConnector ==
    /\ health_status.websocket_connected => api.connected
    /\ HandleReady(health_status) = 200 => api.connected

\* C28 as stated: in a backfill run ready and websocket_connected are never
\* true and /ready answers 503 in every state, and /health answers 200 in
\* every state after the job has marked itself healthy.
C28_BackfillNeverReady ==
    /\ ~health_status.ready /\ ~health_status.websocket_connected
    /\ HandleReady(health_status) = 503
    /\ pc # "start" => HandleHealth(health_status) = 200

\* C28, amended: in a backfill run ready and websocket_connected are never
\* true and /ready answers 503 in every state; /health answers 200 from the
\* moment the job has marked itself healthy for as long as no exception has
\* reached __main__. The handler of that exception, which here is the failed
\* Kafka connection test before the first request, sets healthy to false, and
\* /health answers 503 from then to the exit with code 1.
C28_BackfillNeverReadyHealthyUntilFatal ==
    /\ ~health_status.ready /\ ~health_status.websocket_connected
    /\ HandleReady(health_status) = 503
    /\ (pc # "start" /\ exit_code # <<1>>) => HandleHealth(health_status) = 200
    /\ exit_code = <<1>> =>
          /\ HandleHealth(health_status) = 503
          /\ ~health_status.kafka_connected
          /\ request_count = 0 /\ product_idx = 1 /\ yielded = <<>>

\* a backfill that has published trades and exited with 0: not ready, healthy
C28_Witness ==
    /\ pc = "exited" /\ exit_code = <<0>>
    /\ handed # <<>> /\ handed = yielded
    /\ health_status.kafka_connected
    /\ HandleReady(health_status) = 503
    /\ HandleHealth(health_status) = 200

\* C29: while the service runs, a key whose cache entry is older than
\* cache_ttl_seconds is eventually removed from the cache by the cleanup
\* worker, unless the service is stopped first.
C29_ExpiredKeyEventuallyRemoved ==
    \A t \in Topics, k \in Keys :
        (service.running /\ Expired(cache[t][k]))
            ~> (cache[t][k] = NotCached \/ ~service.running)

\* the threads inside `with self._lock`
InsideLock ==
    Cardinality({i \in Consumers : consumers[i].at \in {"locked", "store"}})
        + (IF worker_pc = "cleanup" THEN 1 ELSE 0)

\* C30: under every interleaving of the process_topic threads and the cleanup
\* worker at most one thread is inside the lock, and for every topic and key,
\* among the is_duplicate calls made since the key was last removed by the
\* cleanup exactly one has returned False, the first, and the key is in the
\* cache of that topic from then on; the counts of one topic do not depend on
\* the same key being cached under another topic.
C30_AtomicCheckAndInsert ==
    /\ InsideLock <= 1
    /\ (lock = "free") = (InsideLock = 0)
    /\ \A t \in Topics, k \in Keys :
         /\ returns[t][k].passed <= 1
         /\ returns[t][k].dropped > 0 => returns[t][k].passed = 1
         /\ InCache(cache, t, k) = (returns[t][k].passed = 1)

\* two threads of the topic "trades" have met the same key, one call passed
\* and another was dropped; the same key has passed once on "candles"; the
\* cleanup worker is about to take the lock that a third call holds
C30_Witness ==
    /\ returns["trades"][1] = [passed |-> 1, dropped |-> 1]
    /\ returns["candles"][1] = [passed |-> 1, dropped |-> 0]
    /\ consumers[1].at = "locked" /\ consumers[1].key = 1
    /\ worker_pc = "slept"
    /\ Expired(cache["candles"][1])

====
